---- MODULE Spec2Model ----
(***************************************************************************)
(* A model of bin/markdown-pii-scanner.js: one invocation of the scanner   *)
(* is a run that goes from argument validation over file collection to     *)
(* one of the scan modes (listing, count, summary, baseline) and ends in   *)
(* process.exit or in an uncaught exception.  The baseline file is the     *)
(* only state that survives a run.                                         *)
(*                                                                         *)
(* Strings are sequences of one-character strings.  A regular expression   *)
(* is a source that compiles or not; a compiled one is an ordered          *)
(* alternation of literal, non-empty words (such as ab|b), matched the     *)
(* way a backtracking matcher does: leftmost position first, first         *)
(* alternative first.  No word holds a line feed, so no match spans two    *)
(* lines of a file.                                                        *)
(*                                                                         *)
(* Spec is the run over small trees with every kind of pattern list,       *)
(* allowlist and baseline file.  SpecFilter is the same run over trees     *)
(* with nested directories under exclusion sets and ignore rules,          *)
(* SpecSummary the summary run over a tree of twelve files, SpecListing    *)
(* the listing run under the fairness of the event loop, and SpecGlob is   *)
(* globToRegExp alone, applied to bounded globs and strings.               *)
(***************************************************************************)
EXTENDS Integers, Sequences, FiniteSets, TLC

VARIABLES
    argv,             \* the options of the command line (lines 264-298)
    countOnly,        \* --count-only (line 17, forced at line 316)
    summaryOnly,      \* --summary (line 18)
    baselineGiven,    \* baselineFile is a non-empty path (line 23)
    patNames,         \* line 26
    patRegexes,       \* line 27: the pattern sources
    allowlistRegexes, \* line 28: compiled allowlist expressions
    entries,          \* the files below targetDir, in readdir order
    excludeDirs,      \* line 22
    ignorePatterns,   \* line 407: the globs of .pii-ignore
    baseline,         \* the content of the baseline file on disk
    pc,               \* where the run is
    filteredFiles,    \* line 446
    fileIdx,          \* position of the for-of loops over filteredFiles
    lineNo,           \* line 612
    counts,           \* line 455
    fileCounts,       \* line 532: sequence of [file, count]
    matches,          \* line 604
    baselineData,     \* line 495
    out,              \* the lines written to stdout
    exitStatus,       \* the process exit status, -1 while running
    thrown,           \* the run ended in an uncaught exception
    run,              \* number of the current invocation
    baselineAtStart,  \* history: the baseline file when the run started
    writes,           \* history: baseline writes of this run
    seededBefore,     \* history: the previous run seeded the baseline
    globIn,           \* globToRegExp alone: its argument (line 373)
    subject,          \* the string the compiled expression is tested on
    globRe,           \* the expression globToRegExp returned (line 404)
    globResult        \* what re.test(subject) gave, once it is tested

vars == <<argv, countOnly, summaryOnly, baselineGiven, patNames, patRegexes,
          allowlistRegexes, entries, excludeDirs, ignorePatterns, baseline,
          pc, filteredFiles, fileIdx, lineNo, counts, fileCounts, matches,
          baselineData, out, exitStatus, thrown, run, baselineAtStart, writes,
          seededBefore, globIn, subject, globRe, globResult>>

\* what the caller supplies: it does not change during a run
config == <<argv, patNames, patRegexes, allowlistRegexes, entries, excludeDirs,
            ignorePatterns>>

\* the matcher taken alone
matcher == <<globIn, subject, globRe, globResult>>

(***************************************************************************)
(* Bounds of the model.                                                    *)
(***************************************************************************)
MaxPatterns == 2
MaxBase == 1
MaxRuns == 2
MaxGlob == 3
MaxSubject == 3

NL == "\n"

(***************************************************************************)
(* Strings and regular expressions.                                        *)
(***************************************************************************)
Min(S) == CHOOSE x \in S : \A y \in S : x <= y

Range(s) == {s[k] : k \in 1..Len(s)}

\* text occurs in s at index i (1-based)
OccursAt(s, i, text) ==
    /\ i + Len(text) - 1 <= Len(s)
    /\ SubSeq(s, i, i + Len(text) - 1) = text

\* The text a compiled expression matches at index i of s, <<>> if none:
\* the first alternative that fits.
ExecAt(alts, s, i) ==
    LET fit == {k \in 1..Len(alts) : OccursAt(s, i, alts[k])}
    IN  IF fit = {} THEN <<>> ELSE alts[Min(fit)]

\* The index of the leftmost match of alts in s at or after index from, 0 if none
SearchFrom(alts, s, from) ==
    LET at == {i \in from..Len(s) : ExecAt(alts, s, i) # <<>>}
    IN  IF at = {} THEN 0 ELSE Min(at)

\* String.prototype.match with a non-global expression: m[0], or <<>> for null
StringMatch(s, alts) ==
    LET i == SearchFrom(alts, s, 1)
    IN  IF i = 0 THEN <<>> ELSE ExecAt(alts, s, i)

\* String.prototype.match with a global expression: the texts of all matches,
\* each search starting where the previous match ended
RECURSIVE MatchAllFrom(_, _, _)
MatchAllFrom(alts, s, from) ==
    LET i == SearchFrom(alts, s, from)
    IN  IF i = 0 THEN <<>>
        ELSE LET m == ExecAt(alts, s, i)
             IN  <<m>> \o MatchAllFrom(alts, s, i + Len(m))

\* a global match that moves on by one character after a match, so that
\* matches may overlap
RECURSIVE OverlapFrom(_, _, _)
OverlapFrom(alts, s, from) ==
    LET i == SearchFrom(alts, s, from)
    IN  IF i = 0 THEN <<>>
        ELSE <<ExecAt(alts, s, i)>> \o OverlapFrom(alts, s, i + 1)

StringMatchAllOverlapping(s, alts) == OverlapFrom(alts, s, 1)

StringMatchAll(s, alts) == MatchAllFrom(alts, s, 1)

\* RegExp.prototype.test
RegExpTest(alts, s) == SearchFrom(alts, s, 1) # 0

\* readline: the lines of a content, split at line feeds; a final line feed
\* ends the last line and opens no empty one
RECURSIVE SplitLines(_)
SplitLines(content) ==
    IF content = <<>> THEN <<>>
    ELSE LET nls == {i \in 1..Len(content) : content[i] = NL}
         IN  IF nls = {} THEN <<content>>
             ELSE LET i == Min(nls)
                  IN  <<SubSeq(content, 1, i - 1)>>
                      \o SplitLines(SubSeq(content, i + 1, Len(content)))

RECURSIVE SumSeq(_)
SumSeq(s) == IF s = <<>> THEN 0 ELSE Head(s) + SumSeq(Tail(s))

(***************************************************************************)
(* Paths, globs and the file list (lines 373-451).                         *)
(***************************************************************************)
\* String.prototype.split(sep) for a one-character separator
RECURSIVE Split(_, _)
Split(s, sep) ==
    LET at == {i \in 1..Len(s) : s[i] = sep}
    IN  IF at = {} THEN <<s>>
        ELSE <<SubSeq(s, 1, Min(at) - 1)>>
             \o Split(SubSeq(s, Min(at) + 1, Len(s)), sep)

Last(s) == s[Len(s)]

\* path.posix.basename of a relative path
Basename(p) == Last(Split(p, "/"))

ToLower(c) == CASE c = "M" -> "m" [] c = "D" -> "d" [] OTHER -> c

\* path.extname(name).replace(/^\./, '').toLowerCase()
ExtOf(name) ==
    LET dots == {i \in 1..Len(name) : name[i] = "."}
    IN  IF dots = {} \/ (CHOOSE i \in dots : \A j \in dots : j <= i) = 1
        THEN <<>>
        ELSE LET d == CHOOSE i \in dots : \A j \in dots : j <= i
             IN  [k \in 1..(Len(name) - d) |-> ToLower(name[d + k])]

\* line 20 and lines 351-352: the default extension list
extSet == {<<"m", "d">>}

Tok(t, c) == [t |-> t, c |-> c]

\* line 396: the characters globToRegExp escapes
Escaped == {"\\", ".", "[", "]", "{", "}", "(", ")", "+", "-", "^", "$", "|"}

\* globToRegExp (lines 373-405): the expression as a sequence of tokens,
\* "any" for .*, "star" for [^/]*, "one" for [^/], "esc" for an escaped
\* character, "lit" for a character copied as it is
RECURSIVE GlobTokens(_)
GlobTokens(pattern) ==
    IF pattern = <<>> THEN <<>>
    ELSE IF Head(pattern) = "*"
         THEN IF Len(pattern) >= 2 /\ pattern[2] = "*"
              THEN <<Tok("any", "")>> \o GlobTokens(SubSeq(pattern, 3, Len(pattern)))
              ELSE <<Tok("star", "")>> \o GlobTokens(Tail(pattern))
    ELSE IF Head(pattern) = "?"
         THEN <<Tok("one", "")>> \o GlobTokens(Tail(pattern))
    ELSE <<Tok(IF Head(pattern) \in Escaped THEN "esc" ELSE "lit", Head(pattern))>>
         \o GlobTokens(Tail(pattern))

globToRegExp(glob) ==
    IF glob # <<>> /\ Head(glob) = "/" THEN GlobTokens(Tail(glob))
    ELSE GlobTokens(glob)

\* re.test(s) for an expression built by globToRegExp: anchored at both
\* ends.  The expression has no flags: a dot matches every character but a
\* line terminator, a negated class matches every character not in it, and a
\* dot that is not escaped is a dot.
RECURSIVE GlobTest(_, _)
GlobTest(toks, s) ==
    IF toks = <<>> THEN s = <<>>
    ELSE LET h == Head(toks)
             rest(k) == SubSeq(s, k + 1, Len(s))
         IN  CASE h.t = "any" ->
                     \E k \in 0..Len(s) :
                         /\ \A j \in 1..k : s[j] # NL
                         /\ GlobTest(Tail(toks), rest(k))
               [] h.t = "star" ->
                     \E k \in 0..Len(s) :
                         /\ \A j \in 1..k : s[j] # "/"
                         /\ GlobTest(Tail(toks), rest(k))
               [] h.t = "one" ->
                     s # <<>> /\ s[1] # "/" /\ GlobTest(Tail(toks), rest(1))
               [] h.t = "lit" /\ h.c = "." ->
                     s # <<>> /\ s[1] # NL /\ GlobTest(Tail(toks), rest(1))
               [] OTHER ->
                     s # <<>> /\ s[1] = h.c /\ GlobTest(Tail(toks), rest(1))

HasSlash(p) == \E i \in 1..Len(p) : p[i] = "/"

\* an isIgnored that tests every rule on the relative path
isIgnoredByPath(relPath, ignores) ==
    \E k \in 1..Len(ignores) : GlobTest(globToRegExp(ignores[k]), relPath)

\* isIgnored (lines 414-426)
isIgnored(relPath, ignores) ==
    \E k \in 1..Len(ignores) :
        IF HasSlash(ignores[k])
        THEN GlobTest(globToRegExp(ignores[k]), relPath)
        ELSE GlobTest(globToRegExp(ignores[k]), Basename(relPath))

\* a traversal that tests the name of every entry, file or directory,
\* against the exclusion set
VisitedUnlessNamed(p, excluded) ==
    LET segs == Split(p, "/")
    IN  /\ \A k \in 1..Len(segs) : segs[k] # <<".", "g", "i", "t">>
        /\ \A k \in 1..Len(segs) : segs[k] \notin excluded
        /\ ExtOf(Last(segs)) \in extSet

\* collectFiles (lines 429-442) visits the entry at path p: no segment is
\* .git, no directory on the way is excluded, and the extension is scanned
Visited(p, excluded) ==
    LET segs == Split(p, "/")
    IN  /\ \A k \in 1..Len(segs) : segs[k] # <<".", "g", "i", "t">>
        /\ \A k \in 1..(Len(segs) - 1) : segs[k] \notin excluded
        /\ ExtOf(Last(segs)) \in extSet

\* lines 444-450: the files collected and not ignored, in the order of the
\* traversal, as indices of entries
RECURSIVE FilteredFrom(_, _, _, _)
FilteredFrom(es, i, excluded, ignores) ==
    IF i > Len(es) THEN <<>>
    ELSE (IF Visited(es[i].path, excluded) /\ ~isIgnored(es[i].path, ignores)
          THEN <<i>> ELSE <<>>)
         \o FilteredFrom(es, i + 1, excluded, ignores)

FilteredFiles(es, excluded, ignores) == FilteredFrom(es, 1, excluded, ignores)


(***************************************************************************)
(* Matching a file: the loops of the three scans.                          *)
(***************************************************************************)
\* lines 470-473, 549-552, 622-625: some allowlist expression matches m
Allowed(m, allow) == \E k \in 1..Len(allow) : RegExpTest(allow[k], m)

\* a count that tests the allowlist once per file and pattern: all matches
\* count as soon as one of them is not allowlisted
CountMatchesPerFile(content, alts, allow) ==
    LET rawMatches == StringMatchAll(content, alts)
    IN  IF \E k \in 1..Len(rawMatches) : ~Allowed(rawMatches[k], allow)
        THEN Len(rawMatches)
        ELSE 0

\* lines 466-479 for one pattern: the unsuppressed matches in a content
CountMatches(content, alts, allow) ==
    LET rawMatches == StringMatchAll(content, alts)
    IN  IF Len(rawMatches) > 0
        THEN IF Len(allow) > 0
             THEN Cardinality({k \in 1..Len(rawMatches) : ~Allowed(rawMatches[k], allow)})
             ELSE Len(rawMatches)
        ELSE 0

\* lines 464-480: the pattern loop of count mode over one content, from
\* pattern p on; new RegExp throws at the first source that does not compile
RECURSIVE CountLoop(_, _, _, _, _)
CountLoop(content, regexes, allow, p, cnts) ==
    IF p > Len(regexes) THEN [counts |-> cnts, threw |-> FALSE]
    ELSE IF ~regexes[p].valid THEN [counts |-> cnts, threw |-> TRUE]
    ELSE CountLoop(content, regexes, allow, p + 1,
             [cnts EXCEPT ![p] = @ + CountMatches(content, regexes[p].alts, allow)])

\* lines 543-559: the pattern loop of summary mode, one counter per file
RECURSIVE SummaryLoop(_, _, _, _, _)
SummaryLoop(content, regexes, allow, p, fileMatchCount) ==
    IF p > Len(regexes) THEN [count |-> fileMatchCount, threw |-> FALSE]
    ELSE IF ~regexes[p].valid THEN [count |-> fileMatchCount, threw |-> TRUE]
    ELSE SummaryLoop(content, regexes, allow, p + 1,
             fileMatchCount + CountMatches(content, regexes[p].alts, allow))

MatchLine(file, n, name, text) ==
    [kind |-> "match", file |-> file, line |-> n, name |-> name, text |-> text]

\* a line handler that prints the matches of a line last pattern first
RECURSIVE LineLoopLastFirst(_, _, _, _, _, _, _, _)
LineLoopLastFirst(line, file, n, names, regexes, allow, p, printed) ==
    IF p > Len(regexes) THEN [printed |-> printed, threw |-> FALSE]
    ELSE IF ~regexes[p].valid THEN [printed |-> printed, threw |-> TRUE]
    ELSE LET m == StringMatch(line, regexes[p].alts)
         IN  IF m # <<>> /\ ~Allowed(m, allow)
             THEN LineLoopLastFirst(line, file, n, names, regexes, allow, p + 1,
                      <<MatchLine(file, n, names[p], m)>> \o printed)
             ELSE LineLoopLastFirst(line, file, n, names, regexes, allow, p + 1,
                                    printed)

\* lines 616-630: the pattern loop of the line handler of scanFile
RECURSIVE LineLoop(_, _, _, _, _, _, _, _)
LineLoop(line, file, n, names, regexes, allow, p, printed) ==
    IF p > Len(regexes) THEN [printed |-> printed, threw |-> FALSE]
    ELSE IF ~regexes[p].valid THEN [printed |-> printed, threw |-> TRUE]
    ELSE LET m == StringMatch(line, regexes[p].alts)
         IN  IF m # <<>> /\ ~Allowed(m, allow)
             THEN LineLoop(line, file, n, names, regexes, allow, p + 1,
                      Append(printed, MatchLine(file, n, names[p], m)))
             ELSE LineLoop(line, file, n, names, regexes, allow, p + 1, printed)

(***************************************************************************)
(* The baseline file (lines 495-527).  A file is absent, or holds text     *)
(* that is no JSON, or JSON: null, an array, or an object that maps names  *)
(* to counts.                                                              *)
(***************************************************************************)
NoMap == [n \in {} |-> 0]

File(kind, map) == [kind |-> kind, map |-> map]

\* a value is truthy at line 504
Truthy(data) == data.kind \in {"array", "object"}

\* lines 505-506: out[patNames[p]] = counts[p], in the order of the patterns
RECURSIVE SeedObject(_, _, _, _)
SeedObject(names, cnts, p, obj) ==
    IF p > Len(names) THEN obj
    ELSE SeedObject(names, cnts, p + 1,
             [n \in (DOMAIN obj) \cup {names[p]} |->
                 IF n = names[p] THEN cnts[p] ELSE obj[n]])

\* line 515: Number(baselineData[name] || 0)
BaseOf(data, name) ==
    IF data.kind = "object" /\ name \in DOMAIN data.map THEN data.map[name] ELSE 0

\* lines 517-523
DeltaText(delta) ==
    IF delta > 0 THEN [t |-> "new", n |-> delta]
    ELSE IF delta < 0 THEN [t |-> "fewer", n |-> 0 - delta]
    ELSE [t |-> "no change", n |-> 0]

\* line 524
DeltaLine(name, current, base) ==
    [kind |-> "delta", name |-> name, current |-> current, base |-> base,
     text |-> DeltaText(current - base)]

\* line 486
CountLine(name, count) == [kind |-> "count", name |-> name, count |-> count]

\* showHelp, written by usageError (lines 257-261)
HelpLine == [kind |-> "help"]


(***************************************************************************)
(* The report of summary mode (lines 566-600).                             *)
(***************************************************************************)
\* the rank of a character in the collation localeCompare uses
CharRank(c) ==
    CASE c = "." -> 1 [] c = "/" -> 2 [] c = "a" -> 3 [] c = "b" -> 4
      [] c = "c" -> 5 [] c = "d" -> 6 [] c = "e" -> 7 [] c = "m" -> 8
      [] c = "x" -> 9 [] c = "y" -> 10 [] OTHER -> 11

\* a.localeCompare(b) < 0
RECURSIVE LocaleLess(_, _)
LocaleLess(a, b) ==
    IF b = <<>> THEN FALSE
    ELSE IF a = <<>> THEN TRUE
    ELSE IF CharRank(Head(a)) # CharRank(Head(b))
         THEN CharRank(Head(a)) < CharRank(Head(b))
    ELSE LocaleLess(Tail(a), Tail(b))

\* the comparator of lines 580 and 582 puts row a before row b
RowBefore(a, b) ==
    \/ a.count > b.count
    \/ a.count = b.count /\ LocaleLess(a.name, b.name)

\* Array.prototype.sort with that comparator (a stable sort)
RECURSIVE InsertRow(_, _)
InsertRow(row, sorted) ==
    IF sorted = <<>> THEN <<row>>
    ELSE IF RowBefore(row, Head(sorted)) THEN <<row>> \o sorted
    ELSE <<Head(sorted)>> \o InsertRow(row, Tail(sorted))

RECURSIVE SortRows(_)
SortRows(rows) ==
    IF rows = <<>> THEN <<>>
    ELSE InsertRow(rows[Len(rows)], SortRows(SubSeq(rows, 1, Len(rows) - 1)))

Row(name, count) == [name |-> name, count |-> count]

\* a grouping by the first directory alone
GroupOfFirst(rel) ==
    LET segs == Split(rel, "/")
    IN  IF Len(segs) = 1 THEN <<".">> ELSE segs[1]

\* lines 570-575: the group of a relative path
GroupOf(rel) ==
    LET segs == Split(rel, "/")
        parts == SubSeq(segs, 1, Len(segs) - 1)
    IN  IF Len(parts) = 0 THEN <<".">>
        ELSE IF Len(parts) = 1 THEN parts[1]
        ELSE parts[1] \o <<"/">> \o parts[2]

\* a rollup that keeps the count of the last file of a group
SetGroup(dirCounts, group, count) ==
    IF \E k \in 1..Len(dirCounts) : dirCounts[k].name = group
    THEN [k \in 1..Len(dirCounts) |->
             IF dirCounts[k].name = group THEN Row(group, count) ELSE dirCounts[k]]
    ELSE Append(dirCounts, Row(group, count))

\* line 576: dirCounts.set(group, (dirCounts.get(group) || 0) + count)
AddToGroup(dirCounts, group, count) ==
    IF \E k \in 1..Len(dirCounts) : dirCounts[k].name = group
    THEN [k \in 1..Len(dirCounts) |->
             IF dirCounts[k].name = group
             THEN Row(group, dirCounts[k].count + count)
             ELSE dirCounts[k]]
    ELSE Append(dirCounts, Row(group, count))

\* lines 568-577
RECURSIVE DirCounts(_, _)
DirCounts(rows, k) ==
    IF k = 0 THEN <<>>
    ELSE AddToGroup(DirCounts(rows, k - 1), GroupOf(rows[k].name), rows[k].count)

\* line 583
TopFiles == 10

\* lines 579-583
DirRows(rows) == SortRows(DirCounts(rows, Len(rows)))

\* a listing that keeps the first files found and sorts those
FileRowsFirstFound(rows) ==
    SortRows(SubSeq(rows, 1, IF Len(rows) < TopFiles THEN Len(rows) ELSE TopFiles))

FileRows(rows) ==
    LET sorted == SortRows(rows)
    IN  SubSeq(sorted, 1, IF Len(sorted) < TopFiles THEN Len(sorted) ELSE TopFiles)

\* lines 590-598: the two sections, each under its header
SummaryLines(rows) ==
    <<[kind |-> "dirHeader"]>>
    \o [k \in 1..Len(DirRows(rows)) |->
           [kind |-> "dir", name |-> DirRows(rows)[k].name,
            count |-> DirRows(rows)[k].count]]
    \o <<[kind |-> "fileHeader"]>>
    \o [k \in 1..Len(FileRows(rows)) |->
           [kind |-> "file", name |-> FileRows(rows)[k].name,
            count |-> FileRows(rows)[k].count]]


(***************************************************************************)
(* The inputs of the model.                                                *)
(***************************************************************************)
Names == {"A", "B"}

\* the sources a, ab|b and one that does not compile, such as (
SrcA == [valid |-> TRUE, alts |-> <<<<"a">>>>]
SrcAB == [valid |-> TRUE, alts |-> <<<<"a", "b">>, <<"b">>>>]
SrcBad == [valid |-> FALSE, alts |-> <<>>]
Sources == {SrcA, SrcAB, SrcBad}

SeqsUpTo(S, n) == UNION {[1..k -> S] : k \in 0..n}

\* the pattern lists: addPattern keeps names and sources in step, and the
\* list is never empty (line 348).  Names can repeat.  The first pattern is
\* named A: the names are interchangeable.
NameLists == {ns \in SeqsUpTo(Names, MaxPatterns) : ns # <<>> /\ ns[1] = "A"}

\* the allowlist: none, or the expression a
AllowLists == {<<>>, <<<<<<"a">>>>>>}

\* the tree below targetDir, in the order readdir gives: d/y.md, absent,
\* unreadable, or holding a, line feed, b; then x.md, absent, unreadable, or
\* holding abb
PathX == <<"x", ".", "m", "d">>
PathY == <<"d", "/", "y", ".", "m", "d">>

Entry(path, content, readable) ==
    [path |-> path, content |-> content, readable |-> readable]

EntriesAt(path, content) ==
    {<<>>, <<Entry(path, <<>>, FALSE)>>, <<Entry(path, content, TRUE)>>}

Trees ==
    {d \o x : d \in EntriesAt(PathY, <<"a", NL, "b">>),
              x \in EntriesAt(PathX, <<"a", "b", "b">>)}

\* --exclude and .pii-ignore: nothing, --exclude d, or the glob d/**
Filters ==
    {[exclude |-> {}, ignore |-> <<>>],
     [exclude |-> {<<"d">>}, ignore |-> <<>>],
     [exclude |-> {}, ignore |-> <<<<"d", "/", "*", "*">>>>]}

Argvs == [countOnly : BOOLEAN, summary : BOOLEAN, baseline : BOOLEAN]

Absent == File("absent", NoMap)

\* a baseline file: absent, no JSON, null, an array, or an object
BaselineFiles ==
    {Absent, File("garbage", NoMap), File("null", NoMap), File("array", NoMap)}
    \cup {File("object", m) : m \in UNION {[S -> 0..MaxBase] : S \in SUBSET Names}}

NoData == File("none", NoMap)

\* the state of the process when it starts
Started ==
    /\ countOnly = FALSE
    /\ summaryOnly = FALSE
    /\ baselineGiven = FALSE
    /\ pc = "args"
    /\ filteredFiles = <<>>
    /\ fileIdx = 0
    /\ lineNo = 0
    /\ counts = <<>>
    /\ fileCounts = <<>>
    /\ matches = 0
    /\ baselineData = NoData
    /\ out = <<>>
    /\ exitStatus = -1
    /\ thrown = FALSE
    /\ run = 1
    /\ baselineAtStart = baseline
    /\ writes = 0
    /\ seededBefore = FALSE

\* no matcher is looked at alone
NoMatcher ==
    /\ globIn = <<>>
    /\ subject = <<>>
    /\ globRe = <<>>
    /\ globResult = FALSE

Init ==
    /\ argv \in Argvs
    /\ patNames \in NameLists
    /\ patRegexes \in [1..Len(patNames) -> Sources]
    /\ allowlistRegexes \in AllowLists
    /\ entries \in Trees
    /\ \E f \in Filters : excludeDirs = f.exclude /\ ignorePatterns = f.ignore
    /\ baseline \in (IF argv.baseline THEN BaselineFiles ELSE {Absent})
    /\ Started
    /\ NoMatcher

(***************************************************************************)
(* The run.                                                                *)
(***************************************************************************)
scan == <<filteredFiles, fileIdx, lineNo, counts, fileCounts, matches>>
flags == <<countOnly, summaryOnly, baselineGiven>>
history == <<run, baselineAtStart, seededBefore>>

\* process.exit(status)
Exit(status) ==
    /\ pc' = "exited"
    /\ exitStatus' = status
    /\ thrown' = FALSE

\* usageError (lines 257-261)
UsageError ==
    /\ out' = Append(out, HelpLine)
    /\ Exit(2)

\* an exception nobody catches ends the process with status 1
Uncaught ==
    /\ pc' = "exited"
    /\ exitStatus' = 1
    /\ thrown' = TRUE

\* an argument check that lets a baseline run without count mode
ParseArgsNoForce ==
    /\ pc = "args"
    /\ summaryOnly' = argv.summary
    /\ baselineGiven' = argv.baseline
    /\ countOnly' = argv.countOnly
    /\ IF argv.summary /\ argv.countOnly
       THEN UsageError
       ELSE IF argv.baseline /\ argv.summary
       THEN UsageError
       ELSE /\ pc' = "collect"
            /\ UNCHANGED <<out, exitStatus, thrown>>
    /\ UNCHANGED <<config, matcher, baseline, scan, baselineData, history, writes>>

\* lines 264-316: the options, then the checks of lines 314-316
ParseArgs ==
    /\ pc = "args"
    /\ summaryOnly' = argv.summary
    /\ baselineGiven' = argv.baseline
    /\ IF argv.summary /\ argv.countOnly
       THEN countOnly' = argv.countOnly /\ UsageError
       ELSE IF argv.baseline /\ argv.summary
       THEN countOnly' = argv.countOnly /\ UsageError
       ELSE /\ countOnly' = (argv.countOnly \/ argv.baseline)
            /\ pc' = "collect"
            /\ UNCHANGED <<out, exitStatus, thrown>>
    /\ UNCHANGED <<config, matcher, baseline, scan, baselineData, history, writes>>

\* lines 444-455: the file list, the exit on an empty one, the mode
CollectFiles ==
    /\ pc = "collect"
    /\ filteredFiles' = FilteredFiles(entries, excludeDirs, ignorePatterns)
    /\ IF Len(filteredFiles') = 0
       THEN Exit(0) /\ UNCHANGED <<fileIdx, counts>>
       ELSE /\ pc' = IF countOnly THEN "count"
                     ELSE IF summaryOnly THEN "summary" ELSE "listing"
            /\ fileIdx' = 1
            /\ counts' = IF countOnly THEN [p \in 1..Len(patNames) |-> 0] ELSE counts
            /\ UNCHANGED <<exitStatus, thrown>>
    /\ UNCHANGED <<config, matcher, flags, baseline, lineNo, fileCounts, matches,
                   baselineData, out, history, writes>>

\* the entry the file loop is at
CurrentFile == entries[filteredFiles[fileIdx]]

\* lines 457-481: one turn of the file loop of count mode
CountFile ==
    /\ pc = "count"
    /\ fileIdx <= Len(filteredFiles)
    /\ IF ~CurrentFile.readable
       THEN /\ fileIdx' = fileIdx + 1
            /\ UNCHANGED <<counts, pc, exitStatus, thrown>>
       ELSE LET r == CountLoop(CurrentFile.content, patRegexes, allowlistRegexes, 1, counts)
            IN  /\ counts' = r.counts
                /\ IF r.threw
                   THEN Uncaught /\ UNCHANGED fileIdx
                   ELSE /\ fileIdx' = fileIdx + 1
                        /\ UNCHANGED <<pc, exitStatus, thrown>>
    /\ UNCHANGED <<config, matcher, flags, baseline, filteredFiles, lineNo, fileCounts,
                   matches, baselineData, out, history, writes>>

\* lines 483-493: the totals, printed unless a baseline is given
CountReport ==
    /\ pc = "count"
    /\ fileIdx > Len(filteredFiles)
    /\ IF ~baselineGiven
       THEN /\ out' = out \o [p \in 1..Len(patNames) |-> CountLine(patNames[p], counts[p])]
            /\ Exit(IF SumSeq(counts) > 0 THEN 1 ELSE 0)
       ELSE /\ pc' = "baseline"
            /\ UNCHANGED <<out, exitStatus, thrown>>
    /\ UNCHANGED <<config, matcher, flags, baseline, scan, baselineData, history, writes>>

\* lines 495-502: JSON.parse of the baseline file, if there is one
BaselineLoad ==
    /\ pc = "baseline"
    /\ IF baseline.kind = "absent"
       THEN pc' = "loaded" /\ UNCHANGED <<baselineData, out, exitStatus, thrown>>
       ELSE IF baseline.kind = "garbage"
       THEN UsageError /\ UNCHANGED baselineData
       ELSE /\ baselineData' = baseline
            /\ pc' = "loaded"
            /\ UNCHANGED <<out, exitStatus, thrown>>
    /\ UNCHANGED <<config, matcher, flags, baseline, scan, history, writes>>

\* lines 504-509: no baseline data, so the totals become the baseline
BaselineSeed ==
    /\ pc = "loaded"
    /\ ~Truthy(baselineData)
    /\ baseline' = File("object", SeedObject(patNames, counts, 1, NoMap))
    /\ writes' = writes + 1
    /\ Exit(0)
    /\ UNCHANGED <<config, matcher, flags, scan, baselineData, out, history>>

\* lines 511-527: one line per pattern, status 1 if any count grew
BaselineCompare ==
    /\ pc = "loaded"
    /\ Truthy(baselineData)
    /\ out' = out \o [p \in 1..Len(patNames) |->
                  DeltaLine(patNames[p], counts[p], BaseOf(baselineData, patNames[p]))]
    /\ Exit(IF \E p \in 1..Len(patNames) :
                   counts[p] - BaseOf(baselineData, patNames[p]) > 0
            THEN 1 ELSE 0)
    /\ UNCHANGED <<config, matcher, flags, baseline, scan, baselineData, history, writes>>

\* lines 535-564: one turn of the file loop of summary mode
SummaryFile ==
    /\ pc = "summary"
    /\ fileIdx <= Len(filteredFiles)
    /\ IF ~CurrentFile.readable
       THEN /\ fileIdx' = fileIdx + 1
            /\ UNCHANGED <<fileCounts, matches, pc, exitStatus, thrown>>
       ELSE LET r == SummaryLoop(CurrentFile.content, patRegexes, allowlistRegexes, 1, 0)
            IN  IF r.threw
                THEN Uncaught /\ UNCHANGED <<fileIdx, fileCounts, matches>>
                ELSE /\ fileIdx' = fileIdx + 1
                     /\ fileCounts' = IF r.count > 0
                                      THEN Append(fileCounts, Row(CurrentFile.path, r.count))
                                      ELSE fileCounts
                     /\ matches' = matches + r.count
                     /\ UNCHANGED <<pc, exitStatus, thrown>>
    /\ UNCHANGED <<config, matcher, flags, baseline, filteredFiles, lineNo, counts,
                   baselineData, out, history, writes>>

\* lines 566-600
SummaryReport ==
    /\ pc = "summary"
    /\ fileIdx > Len(filteredFiles)
    /\ IF Len(fileCounts) = 0
       THEN Exit(0) /\ UNCHANGED out
       ELSE /\ out' = out \o SummaryLines(fileCounts)
            /\ Exit(IF matches > 0 THEN 1 ELSE 0)
    /\ UNCHANGED <<config, matcher, flags, baseline, scan, baselineData, history, writes>>

\* lines 607-612: scanFile opens the stream; a file that cannot be read
\* emits 'error', which resolves the promise
ScanFileOpen ==
    /\ pc = "listing"
    /\ fileIdx <= Len(filteredFiles)
    /\ IF CurrentFile.readable
       THEN pc' = "lines" /\ lineNo' = 0 /\ UNCHANGED fileIdx
       ELSE fileIdx' = fileIdx + 1 /\ UNCHANGED <<pc, lineNo>>
    /\ UNCHANGED <<config, matcher, flags, baseline, filteredFiles, counts, fileCounts,
                   matches, baselineData, out, exitStatus, thrown, history, writes>>

\* lines 614-631: the 'line' event
LineEvent ==
    /\ pc = "lines"
    /\ lineNo < Len(SplitLines(CurrentFile.content))
    /\ lineNo' = lineNo + 1
    /\ LET r == LineLoop(SplitLines(CurrentFile.content)[lineNo'], CurrentFile.path,
                         lineNo', patNames, patRegexes, allowlistRegexes, 1, <<>>)
       IN  /\ out' = out \o r.printed
           /\ matches' = matches + Len(r.printed)
           /\ IF r.threw THEN Uncaught ELSE UNCHANGED <<pc, exitStatus, thrown>>
    /\ UNCHANGED <<config, matcher, flags, baseline, filteredFiles, fileIdx, counts,
                   fileCounts, baselineData, history, writes>>

\* line 633: the 'close' event resolves the promise, the loop goes on
CloseEvent ==
    /\ pc = "lines"
    /\ lineNo = Len(SplitLines(CurrentFile.content))
    /\ pc' = "listing"
    /\ fileIdx' = fileIdx + 1
    /\ UNCHANGED <<config, matcher, flags, baseline, filteredFiles, lineNo, counts,
                   fileCounts, matches, baselineData, out, exitStatus, thrown,
                   history, writes>>

\* line 641
ListingExit ==
    /\ pc = "listing"
    /\ fileIdx > Len(filteredFiles)
    /\ Exit(IF matches > 0 THEN 1 ELSE 0)
    /\ UNCHANGED <<config, matcher, flags, baseline, scan, baselineData, out, history, writes>>

\* the same command again, on the same tree.  Only the baseline file lives
\* on between runs: a run that left it as it was would be repeated step for
\* step, so the next run is taken after a run that wrote it.
NewRun ==
    /\ pc = "exited"
    /\ writes > 0
    /\ run < MaxRuns
    /\ run' = run + 1
    /\ baselineAtStart' = baseline
    /\ seededBefore' = (writes > 0)
    /\ writes' = 0
    /\ pc' = "args"
    /\ countOnly' = FALSE
    /\ summaryOnly' = FALSE
    /\ baselineGiven' = FALSE
    /\ filteredFiles' = <<>>
    /\ fileIdx' = 0
    /\ lineNo' = 0
    /\ counts' = <<>>
    /\ fileCounts' = <<>>
    /\ matches' = 0
    /\ baselineData' = NoData
    /\ out' = <<>>
    /\ exitStatus' = -1
    /\ thrown' = FALSE
    /\ UNCHANGED <<config, matcher, baseline>>

Next ==
    \/ ParseArgs
    \/ CollectFiles
    \/ CountFile
    \/ CountReport
    \/ BaselineLoad
    \/ BaselineSeed
    \/ BaselineCompare
    \/ SummaryFile
    \/ SummaryReport
    \/ ScanFileOpen
    \/ LineEvent
    \/ CloseEvent
    \/ ListingExit
    \/ NewRun

Spec == Init /\ [][Next]_vars

(***************************************************************************)
(* globToRegExp taken alone: a glob is compiled, and the expression is     *)
(* tested on a string.                                                     *)
(***************************************************************************)
\* the characters of the globs: a letter, the separator, the wildcards and
\* a character that globToRegExp escapes
GlobChars == {"a", "/", "*", "?", "."}

GlobAStarStar == <<"a", "/", "*", "*">>
GlobAStar == <<"a", "/", "*">>

\* lines 363-365: a line of .pii-ignore that is a glob is not empty
Globs ==
    (SeqsUpTo(GlobChars, MaxGlob) \ {<<>>}) \cup {GlobAStarStar, GlobAStar}

\* the characters of the strings: a letter, a dot, the separator and a line
\* feed, which a file name may hold
SubjectChars == {"a", ".", "/", NL}

PathABC == <<"a", "/", "b", "/", "c", ".", "m", "d">>

\* lines 416-417, 447: what isIgnored tests is a relative path or its base
\* name: no segment is empty, or a dot, or two dots
IsRelPath(s) ==
    /\ s # <<>>
    /\ \A k \in 1..Len(Split(s, "/")) :
           Split(s, "/")[k] \notin {<<>>, <<".">>, <<".", ".">>}

Subjects ==
    {s \in SeqsUpTo(SubjectChars, MaxSubject) : IsRelPath(s)} \cup {PathABC}

\* no scan is under way
NoScan ==
    /\ argv = [countOnly |-> FALSE, summary |-> FALSE, baseline |-> FALSE]
    /\ patNames = <<"A">>
    /\ patRegexes = <<SrcA>>
    /\ allowlistRegexes = <<>>
    /\ entries = <<>>
    /\ excludeDirs = {}
    /\ ignorePatterns = <<>>
    /\ baseline = Absent
    /\ countOnly = FALSE
    /\ summaryOnly = FALSE
    /\ baselineGiven = FALSE
    /\ filteredFiles = <<>>
    /\ fileIdx = 0
    /\ lineNo = 0
    /\ counts = <<>>
    /\ fileCounts = <<>>
    /\ matches = 0
    /\ baselineData = NoData
    /\ out = <<>>
    /\ exitStatus = -1
    /\ thrown = FALSE
    /\ run = 1
    /\ baselineAtStart = Absent
    /\ writes = 0
    /\ seededBefore = FALSE

InitGlob ==
    /\ NoScan
    /\ pc = "glob"
    /\ globIn \in Globs
    /\ subject \in Subjects
    /\ globRe = <<>>
    /\ globResult = FALSE

\* line 410: re: globToRegExp(p)
CompileGlob ==
    /\ pc = "glob"
    /\ globRe' = globToRegExp(globIn)
    /\ pc' = "compiled"
    /\ UNCHANGED <<config, flags, baseline, scan, baselineData, out, exitStatus,
                   thrown, history, writes, globIn, subject, globResult>>

\* lines 420 and 422: entry.re.test(...)
TestGlob ==
    /\ pc = "compiled"
    /\ globResult' = GlobTest(globRe, subject)
    /\ pc' = "tested"
    /\ UNCHANGED <<config, flags, baseline, scan, baselineData, out, exitStatus,
                   thrown, history, writes, globIn, subject, globRe>>

NextGlob ==
    \/ CompileGlob
    \/ TestGlob

SpecGlob == InitGlob /\ [][NextGlob]_vars

(***************************************************************************)
(* The path filter: runs of every mode over trees with nested directories, *)
(* under exclusion sets and ignore rules of every kind, with one pattern   *)
(* that compiles.                                                          *)
(***************************************************************************)
PathDX == <<"d", "/", "x", ".", "m", "d">>
PathEDX == <<"e", "/", "d", "/", "x", ".", "m", "d">>
PathEY == <<"e", "/", "y", ".", "m", "d">>

\* a file is there or not
Present(path, content) == {<<>>, <<Entry(path, content, TRUE)>>}

\* d/x.md, e/d/x.md and x.md hold a, e/y.md holds b
FilterTrees ==
    {dx \o edx \o ey \o x :
        dx \in Present(PathDX, <<"a">>), edx \in Present(PathEDX, <<"a">>),
        ey \in Present(PathEY, <<"b">>), x \in Present(PathX, <<"a">>)}

\* --exclude: nothing, a directory name, a path, a directory name and the
\* name of a file
ExcludeSets ==
    {{}, {<<"d">>}, {<<"e", "/", "d">>}, {<<"d">>, PathX}}

\* .pii-ignore: nothing, x.md, d/*, /x.md, e/**, or the two rules d/* and
\* y.md
IgnoreLists ==
    {<<>>,
     <<PathX>>,
     <<<<"d", "/", "*">>>>,
     <<<<"/">> \o PathX>>,
     <<<<"e", "/", "*", "*">>>>,
     <<<<"d", "/", "*">>, <<"y", ".", "m", "d">>>>}

InitFilter ==
    /\ argv \in Argvs
    /\ patNames = <<"A">>
    /\ patRegexes = <<SrcA>>
    /\ allowlistRegexes = <<>>
    /\ entries \in FilterTrees
    /\ excludeDirs \in ExcludeSets
    /\ ignorePatterns \in IgnoreLists
    /\ baseline \in (IF argv.baseline
                      THEN {Absent, File("object", [n \in {"A"} |-> 0])}
                      ELSE {Absent})
    /\ Started
    /\ NoMatcher

SpecFilter == InitFilter /\ [][Next]_vars

(***************************************************************************)
(* The report of summary mode over a tree of twelve files, at the root and *)
(* in directories one, two and three deep, of which eight to twelve hold   *)
(* an occurrence.                                                          *)
(***************************************************************************)
Md(stem) == stem \o <<".", "m", "d">>

\* a file with one of several contents
OneOf(path, contents) == {<<Entry(path, c, TRUE)>> : c \in contents}

\* the contents that vary: no, one or two occurrences of the pattern a
Varied == {<<"b">>, <<"a">>, <<"a", "a">>}

\* in the order readdir gives
SummaryTrees ==
    {f1 \o f2 \o f3 \o f4 \o f5 \o f6 \o f7 \o f8 \o f9 \o f10 \o f11 \o f12 :
        f1 \in OneOf(Md(<<"a">>), Varied),
        f2 \in OneOf(Md(<<"b">>), {<<"a">>}),
        f3 \in OneOf(Md(<<"d", "/", "a">>), {<<"a">>}),
        f4 \in OneOf(Md(<<"d", "/", "b">>), {<<"a">>}),
        f5 \in OneOf(Md(<<"d", "/", "e", "/", "a">>), {<<"a">>}),
        f6 \in Present(Md(<<"d", "/", "e", "/", "b">>), <<"a">>),
        f7 \in OneOf(Md(<<"d", "/", "e", "/", "c", "/", "a">>), Varied),
        f8 \in OneOf(Md(<<"e", "/", "a">>), {<<"a">>}),
        f9 \in OneOf(Md(<<"e", "/", "b">>), {<<"a">>}),
        f10 \in OneOf(Md(<<"e", "/", "d", "/", "a">>), {<<"a">>}),
        f11 \in OneOf(PathX, {<<"a">>}),
        f12 \in OneOf(Md(<<"y">>), Varied)}

InitSummary ==
    /\ argv = [countOnly |-> FALSE, summary |-> TRUE, baseline |-> FALSE]
    /\ patNames = <<"A">>
    /\ patRegexes = <<SrcA>>
    /\ allowlistRegexes = <<>>
    /\ entries \in SummaryTrees
    /\ excludeDirs = {}
    /\ ignorePatterns = <<>>
    /\ baseline = Absent
    /\ Started
    /\ NoMatcher

NextSummary ==
    \/ ParseArgs
    \/ CollectFiles
    \/ SummaryFile
    \/ SummaryReport

SpecSummary == InitSummary /\ [][NextSummary]_vars

(***************************************************************************)
(* Listing mode alone (lines 603-642).  The event loop of Node runs every  *)
(* event that is pending and every continuation of an await whose promise  *)
(* is resolved: a step of the listing that can be taken is taken.          *)
(***************************************************************************)
InitListing ==
    /\ Init
    /\ argv = [countOnly |-> FALSE, summary |-> FALSE, baseline |-> FALSE]

NextListing ==
    \/ ParseArgs
    \/ CollectFiles
    \/ ScanFileOpen
    \/ LineEvent
    \/ CloseEvent
    \/ ListingExit

SpecListing == InitListing /\ [][NextListing]_vars /\ WF_vars(NextListing)

(***************************************************************************)
(* What the claims speak of.                                               *)
(***************************************************************************)
ListingRun == ~argv.countOnly /\ ~argv.summary /\ ~argv.baseline
CountRun == argv.countOnly /\ ~argv.summary /\ ~argv.baseline
SummaryRun == argv.summary /\ ~argv.countOnly /\ ~argv.baseline
BaselineRun == argv.baseline /\ ~argv.summary

Exited == pc = "exited"

AllCompile == \A p \in 1..Len(patRegexes) : patRegexes[p].valid

LinesOfKind(kind) == {k \in 1..Len(out) : out[k].kind = kind}

\* the file loop of count mode, or of summary mode, has run to its end
CountDone ==
    countOnly /\ Len(filteredFiles) > 0 /\ fileIdx > Len(filteredFiles)
SummaryDone ==
    summaryOnly /\ ~countOnly /\ Len(filteredFiles) > 0 /\ fileIdx > Len(filteredFiles)

\* The reference counter: the occurrences of an expression in a text are the
\* positions where it matches and that no earlier occurrence covers.
RefOccurrences(s, alts) ==
    CHOOSE O \in SUBSET (1..Len(s)) :
        \A i \in 1..Len(s) :
            i \in O <=> /\ ExecAt(alts, s, i) # <<>>
                        /\ \A j \in O : j < i => j + Len(ExecAt(alts, s, j)) <= i

\* some allowlist expression matches somewhere in the text
RefSuppressed(text, allow) ==
    \E k \in 1..Len(allow) : \E i \in 1..Len(text) : ExecAt(allow[k], text, i) # <<>>

\* the occurrences in s that the allowlist does not suppress
RefUnsuppressed(s, alts, allow) ==
    {i \in RefOccurrences(s, alts) : ~RefSuppressed(ExecAt(alts, s, i), allow)}

\* what a file that passed the path filter holds for a scan: nothing if it
\* cannot be read
Readable(e) == IF e.readable THEN e.content ELSE <<>>

\* the unsuppressed occurrences of pattern p in the first k files scanned
RECURSIVE RefTotal(_, _)
RefTotal(p, k) ==
    IF k = 0 THEN 0
    ELSE RefTotal(p, k - 1)
         + Cardinality(RefUnsuppressed(Readable(entries[filteredFiles[k]]),
                                       patRegexes[p].alts, allowlistRegexes))

\* the lines of line n of a file in a listing where a suppressed occurrence
\* counts as no occurrence: per pattern, the first unsuppressed occurrence
RECURSIVE RefLine(_, _, _, _)
RefLine(path, line, n, p) ==
    IF p > Len(patRegexes) THEN <<>>
    ELSE LET free == RefUnsuppressed(line, patRegexes[p].alts, allowlistRegexes)
         IN  (IF free = {} THEN <<>>
              ELSE <<MatchLine(path, n, patNames[p],
                               ExecAt(patRegexes[p].alts, line, Min(free)))>>)
             \o RefLine(path, line, n, p + 1)

RECURSIVE RefFile(_, _, _)
RefFile(path, lines, n) ==
    IF n > Len(lines) THEN <<>>
    ELSE RefLine(path, lines[n], n, 1) \o RefFile(path, lines, n + 1)

RECURSIVE RefListing(_)
RefListing(k) ==
    IF k = 0 THEN <<>>
    ELSE RefListing(k - 1)
         \o RefFile(entries[filteredFiles[k]].path,
                    SplitLines(Readable(entries[filteredFiles[k]])), 1)

\* listing mode suppresses pattern p on line n of entry e: the pattern's
\* match on that line is allowlisted (lines 618-626)
ListingSuppresses(e, n, p) ==
    LET m == StringMatch(SplitLines(Readable(e))[n], patRegexes[p].alts)
    IN  m # <<>> /\ Allowed(m, allowlistRegexes)

SuppressedLines(e, p) ==
    {n \in 1..Len(SplitLines(Readable(e))) : ListingSuppresses(e, n, p)}

\* all occurrences of pattern p in entry e, suppressed or not, less those
\* that listing mode suppresses
RawLessSuppressed(e, p) ==
    Cardinality(RefOccurrences(Readable(e), patRegexes[p].alts))
    - Cardinality(SuppressedLines(e, p))

\* the same, summed over the first k files scanned
RECURSIVE RestTotal(_, _)
RestTotal(p, k) ==
    IF k = 0 THEN 0
    ELSE RestTotal(p, k - 1) + RawLessSuppressed(entries[filteredFiles[k]], p)

\* the same, summed over the first p patterns
RECURSIVE RestOfFile(_, _)
RestOfFile(e, p) ==
    IF p = 0 THEN 0 ELSE RestOfFile(e, p - 1) + RawLessSuppressed(e, p)

\* the unsuppressed occurrences of the first p patterns in entry e
RECURSIVE RefFileCount(_, _)
RefFileCount(e, p) ==
    IF p = 0 THEN 0
    ELSE RefFileCount(e, p - 1)
         + Cardinality(RefUnsuppressed(Readable(e), patRegexes[p].alts,
                                       allowlistRegexes))

\* the count summary mode keeps for the file at path
FileCountOf(path) ==
    IF \E k \in 1..Len(fileCounts) : fileCounts[k].name = path
    THEN (CHOOSE r \in Range(fileCounts) : r.name = path).count
    ELSE 0

(***************************************************************************)
(* The claims.                                                             *)
(***************************************************************************)

\* C1: in listing mode and in count mode without a baseline, the exit status
\* is 1 if the matches the mode counted are more than 0, and 0 otherwise.
C1_ExitOneIffMatches ==
    (Exited /\ (ListingRun \/ CountRun)) =>
        exitStatus = IF (IF ListingRun THEN matches ELSE SumSeq(counts)) > 0
                     THEN 1 ELSE 0

\* C2: in baseline mode with a baseline that maps names to counts, the exit
\* status is 1 if some pattern's count is above its baseline count, and 0
\* otherwise.
C2_ExitOneIffPositiveDelta ==
    (Exited /\ BaselineRun /\ baselineAtStart.kind = "object") =>
        exitStatus = IF \E p \in 1..Len(counts) :
                            counts[p] > BaseOf(baselineAtStart, patNames[p])
                     THEN 1 ELSE 0

\* C3: a baseline run right after the run that seeded the baseline, on the
\* same tree, reports one line per pattern, each "no change", and exits 0.
C3_RoundTrip ==
    (Exited /\ BaselineRun /\ seededBefore) =>
        /\ exitStatus = 0
        /\ Cardinality(LinesOfKind("delta")) = Len(patNames)
        /\ \A k \in LinesOfKind("delta") : out[k].text.t = "no change"

\* C4: a baseline run that starts without a baseline file ends with status 0
\* and with the file holding the count-mode total of every pattern.
C4_SeedsWhenAbsent ==
    (Exited /\ BaselineRun /\ baselineAtStart.kind = "absent") =>
        /\ exitStatus = 0
        /\ baseline.kind = "object"
        /\ \A p \in 1..Len(patNames) :
               /\ patNames[p] \in DOMAIN baseline.map
               /\ \E q \in 1..Len(patNames) :
                      /\ patNames[q] = patNames[p]
                      /\ baseline.map[patNames[p]] = RefTotal(q, Len(filteredFiles))

\* C5: a baseline file that is no mapping of names to counts ends the run
\* with status 2, with no delta line, and with the file as it was.
C5_MalformedBaselineIsFatal ==
    (Exited /\ BaselineRun /\ baselineAtStart.kind \in {"garbage", "null", "array"}) =>
        /\ exitStatus = 2
        /\ LinesOfKind("delta") = {}
        /\ baseline = baselineAtStart

\* C6: when a pattern source does not compile the run ends with status 2,
\* having printed no match or count and written no baseline.
C6_CompileErrorIsFatal ==
    (Exited /\ ~AllCompile) =>
        /\ exitStatus = 2
        /\ \A k \in 1..Len(out) : out[k].kind = "help"
        /\ writes = 0

\* C7: a suppressed occurrence is as good as no occurrence: a listing prints,
\* for every line and pattern, the first occurrence that is not suppressed,
\* and a count, per pattern or per file, is the number of occurrences that
\* are not suppressed.
C7_SuppressedIsUnmatched ==
    /\ (Exited /\ ListingRun /\ ~thrown /\ AllCompile) =>
           out = RefListing(Len(filteredFiles))
    /\ (CountDone /\ AllCompile) =>
           \A p \in 1..Len(counts) : counts[p] = RefTotal(p, Len(filteredFiles))
    /\ (SummaryDone /\ AllCompile) =>
           \A k \in 1..Len(filteredFiles) :
               FileCountOf(entries[filteredFiles[k]].path)
                   = RefFileCount(entries[filteredFiles[k]], Len(patRegexes))

\* C8: an occurrence that listing mode suppresses on a line of a file is in
\* neither the file's count of summary mode nor the pattern's total of count
\* mode: each stays within the occurrences that listing mode does not
\* suppress.
C8_SuppressionAcrossModes ==
    /\ CountDone =>
           \A p \in 1..Len(counts) : counts[p] <= RestTotal(p, Len(filteredFiles))
    /\ SummaryDone =>
           \A k \in 1..Len(filteredFiles) :
               FileCountOf(entries[filteredFiles[k]].path)
                   <= RestOfFile(entries[filteredFiles[k]], Len(patRegexes))

\* C8 witness: count mode has counted a file on a line of which listing mode
\* suppresses a pattern that also has an occurrence left to count
C8_Witness ==
    /\ CountDone
    /\ \E p \in 1..Len(counts) : \E k \in 1..Len(filteredFiles) :
           /\ counts[p] > 0
           /\ SuppressedLines(entries[filteredFiles[k]], p) # {}

\* C9: every count-mode total is the number of unsuppressed occurrences that
\* the reference counter finds in the files that passed the path filter, and
\* is not negative.
C9_CountIsReference ==
    CountDone =>
        \A p \in 1..Len(counts) :
            /\ counts[p] = RefTotal(p, Len(filteredFiles))
            /\ counts[p] >= 0

\* C9 witness: two files counted, a total of two or more, and an occurrence
\* the allowlist suppressed
C9_Witness ==
    /\ CountDone
    /\ Len(filteredFiles) = 2
    /\ \E p \in 1..Len(counts) :
           /\ counts[p] >= 2
           /\ \E k \in 1..Len(filteredFiles) :
                  SuppressedLines(entries[filteredFiles[k]], p) # {}

FilePos(path) ==
    IF \E k \in 1..Len(filteredFiles) : entries[filteredFiles[k]].path = path
    THEN CHOOSE k \in 1..Len(filteredFiles) : entries[filteredFiles[k]].path = path
    ELSE 0

\* the lines of the file at path
LinesAt(path) == SplitLines(Readable(entries[filteredFiles[FilePos(path)]]))

\* text is what the expression matches at the first place of the line where
\* it matches at all
FirstOccurrence(text, line, alts) ==
    \E i \in 1..Len(line) :
        /\ text # <<>>
        /\ ExecAt(alts, line, i) = text
        /\ \A j \in 1..(i - 1) : ExecAt(alts, line, j) = <<>>

\* the patterns that can have printed line k of the output: the name is the
\* pattern's, the text is the pattern's first occurrence on the line named
PatternsOf(k) ==
    {p \in 1..Len(patNames) :
        /\ patRegexes[p].valid
        /\ out[k].name = patNames[p]
        /\ out[k].line \in 1..Len(LinesAt(out[k].file))
        /\ FirstOccurrence(out[k].text, LinesAt(out[k].file)[out[k].line],
                           patRegexes[p].alts)}

\* output line j comes from a later file, or from a later line of the same
\* file, than output line k
LaterLine(k, j) ==
    \/ FilePos(out[k].file) < FilePos(out[j].file)
    \/ /\ FilePos(out[k].file) = FilePos(out[j].file)
       /\ out[k].line < out[j].line

SameLine(k, j) == out[k].file = out[j].file /\ out[k].line = out[j].line

\* the pattern of output line k when every line of the output is given the
\* first pattern that can have printed it and that comes after the pattern
\* of the line before, if that one is of the same line of the same file;
\* 0 if there is no such pattern
RECURSIVE PatternAt(_)
PatternAt(k) ==
    LET after == IF k > 1 /\ SameLine(k - 1, k) THEN PatternAt(k - 1) ELSE 0
        ps == {p \in PatternsOf(k) : p > after}
    IN  IF k > 1 /\ PatternAt(k - 1) = 0 THEN 0
        ELSE IF ps = {} THEN 0
        ELSE Min(ps)

\* C11: the output of a listing is in the order of (file as traversed, line,
\* pattern as defined): every line names a file that was scanned, a 1-based
\* line of it and the first occurrence of a pattern on that line, a file's
\* lines come before the next file's, a line's before the next line's, and
\* on one line of a file the patterns come in their order, each at most once.
C11_ListingOrder ==
    ListingRun =>
        /\ \A k \in 1..Len(out) :
               /\ out[k].kind = "match"
               /\ FilePos(out[k].file) > 0
               /\ PatternAt(k) > 0
        /\ \A k \in 1..(Len(out) - 1) : SameLine(k, k + 1) \/ LaterLine(k, k + 1)

\* C11 witness: a listing has ended that printed matches of two files, a
\* match on a second line, and two patterns on one line
C11_Witness ==
    /\ ListingRun
    /\ Exited
    /\ \E k, j \in 1..Len(out) : out[k].file # out[j].file
    /\ \E k \in 1..Len(out) : out[k].line = 2
    /\ \E k \in 1..(Len(out) - 1) :
           SameLine(k, k + 1) /\ PatternAt(k) < PatternAt(k + 1)

\* a glob matches a string, as the words of the glob syntax have it: two
\* stars stand for any characters, one star for any characters but the
\* separator, a question mark for one character that is no separator, and
\* any other character for itself
RECURSIVE RefGlob(_, _)
RefGlob(g, s) ==
    IF g = <<>> THEN s = <<>>
    ELSE IF Len(g) >= 2 /\ g[1] = "*" /\ g[2] = "*"
         THEN \E k \in 0..Len(s) :
                  RefGlob(SubSeq(g, 3, Len(g)), SubSeq(s, k + 1, Len(s)))
    ELSE IF g[1] = "*"
         THEN \E k \in 0..Len(s) :
                  /\ \A j \in 1..k : s[j] # "/"
                  /\ RefGlob(Tail(g), SubSeq(s, k + 1, Len(s)))
    ELSE IF g[1] = "?"
         THEN s # <<>> /\ s[1] # "/" /\ RefGlob(Tail(g), Tail(s))
    ELSE s # <<>> /\ s[1] = g[1] /\ RefGlob(Tail(g), Tail(s))

\* the same after one leading separator of the glob is dropped
RefGlobMatches(g, s) ==
    RefGlob(IF g # <<>> /\ g[1] = "/" THEN Tail(g) ELSE g, s)

\* C12: the expression compiled from a glob matches a string exactly if the
\* glob, less one leading separator, matches the whole string, where two
\* stars match any characters, one star any characters but the separator, a
\* question mark one character that is no separator, and any other character
\* itself; a/** matches a/b/c.md and a/* does not.
C12_GlobSemantics ==
    pc = "tested" =>
        /\ globResult = RefGlobMatches(globIn, subject)
        /\ (globIn = GlobAStarStar /\ subject = PathABC) => globResult
        /\ (globIn = GlobAStar /\ subject = PathABC) => ~globResult

\* the base name of a path: what follows its last separator
RefBase(path) ==
    LET seps == {i \in 1..Len(path) : path[i] = "/"}
    IN  IF seps = {} THEN path
        ELSE SubSeq(path, (CHOOSE i \in seps : \A j \in seps : j <= i) + 1, Len(path))

\* a rule with a separator is for the relative path, one without for the
\* base name
RuleMatches(rule, path) ==
    IF \E i \in 1..Len(rule) : rule[i] = "/"
    THEN RefGlobMatches(rule, path)
    ELSE RefGlobMatches(rule, RefBase(path))

Dropped(path) == \E k \in 1..Len(ignorePatterns) : RuleMatches(ignorePatterns[k], path)

\* the file list is made
Collected == pc \notin {"args", "collect", "glob", "compiled", "tested"} /\ exitStatus # 2

Scanned(i) == \E k \in 1..Len(filteredFiles) : filteredFiles[k] = i

\* the candidates: the entries the traversal collects
Candidate(i) == Visited(entries[i].path, excludeDirs)

\* the unsuppressed occurrences of pattern p in the candidates among the
\* first i entries that no rule drops
RECURSIVE KeptTotal(_, _)
KeptTotal(p, i) ==
    IF i = 0 THEN 0
    ELSE KeptTotal(p, i - 1)
         + (IF Candidate(i) /\ ~Dropped(entries[i].path)
            THEN Cardinality(RefUnsuppressed(Readable(entries[i]),
                                             patRegexes[p].alts, allowlistRegexes))
            ELSE 0)

\* C13: a candidate is dropped from the file list exactly if some ignore
\* rule matches it, a rule with a separator the relative path and a rule
\* without one the base name; no line of any mode names a dropped file, the
\* counts, the seeded baseline and the deltas are those of the files that
\* are not dropped, and so is the exit status.
C13_DroppedIffRuleMatches ==
    Collected =>
        /\ \A i \in 1..Len(entries) :
               Candidate(i) => (Scanned(i) <=> ~Dropped(entries[i].path))
        /\ \A k \in 1..Len(out) :
               /\ out[k].kind = "match" => ~Dropped(out[k].file)
               /\ out[k].kind = "file" => ~Dropped(out[k].name)
               /\ out[k].kind = "count" => out[k].count = KeptTotal(1, Len(entries))
               /\ out[k].kind = "delta" => out[k].current = KeptTotal(1, Len(entries))
        /\ CountDone => counts[1] = KeptTotal(1, Len(entries))
        /\ SummaryDone => matches = KeptTotal(1, Len(entries))
        /\ (Exited /\ writes > 0) => baseline.map["A"] = KeptTotal(1, Len(entries))
        /\ (Exited /\ ~BaselineRun) =>
               exitStatus = IF KeptTotal(1, Len(entries)) > 0 THEN 1 ELSE 0
        /\ (Exited /\ BaselineRun /\ baselineAtStart.kind = "object") =>
               exitStatus = IF KeptTotal(1, Len(entries))
                                 > BaseOf(baselineAtStart, "A") THEN 1 ELSE 0

\* C13 witness: a run ended with status 0 and nothing printed, though
\* candidates with occurrences were there: a rule without a separator
\* dropped them by their base name, one of them in a directory, and another
\* file was scanned
C13_Witness ==
    /\ Collected
    /\ Exited
    /\ exitStatus = 0
    /\ ~BaselineRun
    /\ Len(filteredFiles) > 0
    /\ \E i \in 1..Len(entries) :
           /\ Candidate(i)
           /\ ~Scanned(i)
           /\ entries[i].path # RefBase(entries[i].path)
           /\ entries[i].content = <<"a">>
           /\ \E k \in 1..Len(ignorePatterns) :
                  /\ \A j \in 1..Len(ignorePatterns[k]) : ignorePatterns[k][j] # "/"
                  /\ RuleMatches(ignorePatterns[k], entries[i].path)

\* the names of the directories a path goes through: the runs of characters
\* between two separators, or between the start and a separator
DirNamesOf(path) ==
    {SubSeq(path, i, j) : <<i, j>> \in
        {ij \in (1..Len(path)) \X (1..Len(path)) :
            /\ ij[1] <= ij[2]
            /\ ij[1] = 1 \/ path[ij[1] - 1] = "/"
            /\ ij[2] < Len(path) /\ path[ij[2] + 1] = "/"
            /\ \A k \in ij[1]..ij[2] : path[k] # "/"}}

Pruned(path) == DirNamesOf(path) \cap excludeDirs # {}

\* the name of the file ends in .md
HasMdExt(path) ==
    /\ Len(path) > 3
    /\ SubSeq(path, Len(path) - 2, Len(path)) = <<".", "m", "d">>
    /\ path[Len(path) - 3] # "/"

\* C14: no file beneath a directory whose name is in the exclusion set is in
\* the file list, whatever the ignore rules and its extension; a file with
\* no such directory above it, with a scanned extension and no ignore rule
\* against it, is in the list, also if the exclusion set holds the path of
\* one of its directories or the name of the file.
C14_ExcludedDirIsPruned ==
    Collected =>
        \A i \in 1..Len(entries) :
            /\ Pruned(entries[i].path) => ~Scanned(i)
            /\ (/\ ~Pruned(entries[i].path)
                /\ HasMdExt(entries[i].path)
                /\ ~Dropped(entries[i].path)) => Scanned(i)

\* C14 witness: the exclusion set holds d and x.md; e/d/x.md, beneath a
\* directory d that is not at the root, is not in the file list though no
\* rule is against it, and x.md is
C14_Witness ==
    /\ Collected
    /\ PathX \in excludeDirs
    /\ \E i, j \in 1..Len(entries) :
           /\ entries[i].path = PathEDX
           /\ Pruned(PathEDX)
           /\ ~Dropped(PathEDX)
           /\ ~Scanned(i)
           /\ entries[j].path = PathX
           /\ Scanned(j)

\* the group of a file, as the grouping rule has it: the path up to its
\* second separator, or up to its only one, or the root marker
RefGroup(path) ==
    LET seps == {i \in 1..Len(path) : path[i] = "/"}
        first == CHOOSE i \in seps : \A j \in seps : i <= j
        second == CHOOSE i \in seps \ {first} : \A j \in seps \ {first} : i <= j
    IN  IF seps = {} THEN <<".">>
        ELSE IF Cardinality(seps) = 1 THEN SubSeq(path, 1, first - 1)
        ELSE SubSeq(path, 1, second - 1)

\* summary mode has printed its report
Reported == Exited /\ LinesOfKind("dirHeader") # {}

\* the counts the 'Top Files' lines from line j of the output on report for
\* the files of a group
RECURSIVE ListedSum(_, _)
ListedSum(group, j) ==
    IF j > Len(out) THEN 0
    ELSE (IF out[j].kind = "file" /\ RefGroup(out[j].name) = group
          THEN out[j].count ELSE 0)
         + ListedSum(group, j + 1)

\* the occurrences in the files of a group among the first k files scanned
RECURSIVE GroupSum(_, _)
GroupSum(group, k) ==
    IF k = 0 THEN 0
    ELSE GroupSum(group, k - 1)
         + (IF RefGroup(entries[filteredFiles[k]].path) = group
            THEN RefFileCount(entries[filteredFiles[k]], Len(patRegexes))
            ELSE 0)

\* the files scanned that hold an occurrence
Nonzero ==
    {k \in 1..Len(filteredFiles) :
        RefFileCount(entries[filteredFiles[k]], Len(patRegexes)) > 0}

\* C15 as stated: the count of every line under 'By Directory' is the sum
\* of the counts that the lines under 'Top Files' report for the files of
\* that group, also when more than 10 files hold an occurrence.
C15_RollupOfListedFiles ==
    Reported =>
        \A k \in LinesOfKind("dir") : out[k].count = ListedSum(out[k].name, 1)

\* C15 amended: the count of every line under 'By Directory' is the sum of
\* the counts of all files of that group, listed under 'Top Files' or not;
\* it is the sum of the counts listed there when no more than 10 files hold
\* an occurrence.
C15_RollupOfAllFiles ==
    Reported =>
        \A k \in LinesOfKind("dir") :
            /\ out[k].count = GroupSum(out[k].name, Len(filteredFiles))
            /\ Cardinality(Nonzero) <= TopFiles =>
                   out[k].count = ListedSum(out[k].name, 1)

\* C15 witness: a report over more than 10 files with an occurrence, with a
\* directory line that counts more than the file lines of its group
C15_Witness ==
    /\ Reported
    /\ Cardinality(Nonzero) > TopFiles
    /\ \E k \in LinesOfKind("dir") : out[k].count > ListedSum(out[k].name, 1)

\* the number of separators of a path: the directories it goes through
Depth(path) == Cardinality({i \in 1..Len(path) : path[i] = "/"})

\* the occurrences in the first k files scanned
RECURSIVE AllSum(_)
AllSum(k) ==
    IF k = 0 THEN 0
    ELSE AllSum(k - 1) + RefFileCount(entries[filteredFiles[k]], Len(patRegexes))

\* the counts of the 'By Directory' lines from line j of the output on
RECURSIVE DirLinesSum(_)
DirLinesSum(j) ==
    IF j > Len(out) THEN 0
    ELSE (IF out[j].kind = "dir" THEN out[j].count ELSE 0) + DirLinesSum(j + 1)

\* C16: the report has, for every file with an occurrence, exactly one
\* 'By Directory' line named by the first two directories of the file's
\* relative path: the root marker if it has none, the directory if it has
\* one, first/second if it has two or more; there is no other line, and the
\* lines count every occurrence once.
C16_GroupIsFirstTwoSegments ==
    Reported =>
        /\ \A f \in Nonzero :
               Cardinality({k \in LinesOfKind("dir") :
                   out[k].name = RefGroup(entries[filteredFiles[f]].path)}) = 1
        /\ \A k \in LinesOfKind("dir") :
               \E f \in Nonzero : out[k].name = RefGroup(entries[filteredFiles[f]].path)
        /\ DirLinesSum(1) = AllSum(Len(filteredFiles))

\* C16 witness: a report over files with an occurrence at the root and one,
\* two and three directories deep, the last in the group of the first two
C16_Witness ==
    /\ Reported
    /\ \A d \in 0..3 : \E f \in Nonzero : Depth(entries[filteredFiles[f]].path) = d
    /\ \E f \in Nonzero : \E k \in LinesOfKind("dir") :
           /\ Depth(entries[filteredFiles[f]].path) = 3
           /\ out[k].name = RefGroup(entries[filteredFiles[f]].path)
           /\ Depth(out[k].name) = 1

\* name a comes before name b: a is a proper prefix of b, or at the first
\* place where they differ a has the character that collates first
RefNameLess(a, b) ==
    \E i \in 1..(Len(a) + 1) :
        /\ i <= Len(b)
        /\ \A j \in 1..(i - 1) : a[j] = b[j]
        /\ i = Len(a) + 1 \/ CharRank(a[i]) < CharRank(b[i])

\* the rank of the report: the higher count first, the name decides a tie
RanksBefore(count1, name1, count2, name2) ==
    \/ count1 > count2
    \/ count1 = count2 /\ RefNameLess(name1, name2)

\* the files with an occurrence that no 'Top Files' line names
Omitted ==
    {f \in Nonzero :
        \A k \in LinesOfKind("file") : out[k].name # entries[filteredFiles[f]].path}

\* C17: the 'By Directory' lines come by descending count, ties by ascending
\* name; so do the 'Top Files' lines, each of which names a file with its
\* count, which is above 0; there are 10 of them, or as many as there are
\* files with an occurrence if these are fewer, and every file left out ranks
\* after every file listed.
C17_RankedAndTopTen ==
    Reported =>
        /\ \A k, j \in LinesOfKind("dir") :
               k < j => RanksBefore(out[k].count, out[k].name, out[j].count, out[j].name)
        /\ \A k, j \in LinesOfKind("file") :
               k < j => RanksBefore(out[k].count, out[k].name, out[j].count, out[j].name)
        /\ \A k \in LinesOfKind("file") :
               /\ out[k].count > 0
               /\ \E f \in Nonzero :
                      /\ out[k].name = entries[filteredFiles[f]].path
                      /\ out[k].count = RefFileCount(entries[filteredFiles[f]],
                                                     Len(patRegexes))
        /\ Cardinality(LinesOfKind("file"))
               = (IF Cardinality(Nonzero) < TopFiles THEN Cardinality(Nonzero)
                  ELSE TopFiles)
        /\ \A f \in Omitted : \A k \in LinesOfKind("file") :
               RanksBefore(out[k].count, out[k].name,
                           RefFileCount(entries[filteredFiles[f]], Len(patRegexes)),
                           entries[filteredFiles[f]].path)

\* C17 witness: a report over 12 files with an occurrence: two are left
\* out, the file found last is listed first for its count, and names decide
\* between files and between directories of equal count
C17_Witness ==
    /\ Reported
    /\ Cardinality(Omitted) = 2
    /\ \E k \in LinesOfKind("file") :
           /\ out[k].name = entries[filteredFiles[Len(filteredFiles)]].path
           /\ \A j \in LinesOfKind("file") : k <= j
           /\ out[k].count > out[k + 1].count
    /\ \E k, j \in LinesOfKind("file") : k < j /\ out[k].count = out[j].count
    /\ \E k, j \in LinesOfKind("dir") : k < j /\ out[k].count = out[j].count

\* the entry of a baseline for a name, 0 if it has none
RefBaseline(data, name) == IF name \in DOMAIN data.map THEN data.map[name] ELSE 0

\* C18: a baseline run that starts with a baseline mapping names to counts
\* reports one result per pattern, in the order of the patterns, with the
\* pattern's total, its baseline count or 0, and their difference: "no
\* change" exactly for 0, "+n new" exactly for n > 0, "-n fewer" exactly for
\* -n < 0.
C18_DeltaPerPattern ==
    (Exited /\ BaselineRun /\ baselineAtStart.kind = "object") =>
        /\ Len(out) = Len(patNames)
        /\ \A p \in 1..Len(patNames) :
               LET delta == RefTotal(p, Len(filteredFiles))
                                - RefBaseline(baselineAtStart, patNames[p])
               IN  /\ out[p].kind = "delta"
                   /\ out[p].name = patNames[p]
                   /\ out[p].current = RefTotal(p, Len(filteredFiles))
                   /\ out[p].base = RefBaseline(baselineAtStart, patNames[p])
                   /\ out[p].text.t = "no change" <=> delta = 0
                   /\ out[p].text = [t |-> "new", n |-> delta] <=> delta > 0
                   /\ out[p].text = [t |-> "fewer", n |-> 0 - delta] <=> delta < 0

\* the files of the list that can be read
CanRead == {k \in 1..Len(filteredFiles) : entries[filteredFiles[k]].readable}

\* the total of pattern p over the files of a corpus among the first k of
\* the list
RECURSIVE CorpusTotal(_, _, _)
CorpusTotal(p, k, corpus) ==
    IF k = 0 THEN 0
    ELSE CorpusTotal(p, k - 1, corpus)
         + (IF k \in corpus /\ k \in CanRead
            THEN CountMatches(entries[filteredFiles[k]].content,
                              patRegexes[p].alts, allowlistRegexes)
            ELSE 0)

\* listing mode prints pattern p for line n of entry e
ListingPrints(e, n, p) ==
    LET m == StringMatch(SplitLines(Readable(e))[n], patRegexes[p].alts)
    IN  m # <<>> /\ ~Allowed(m, allowlistRegexes)

\* the exit status of the run of the same command over a corpus, a part of
\* the file list
RunExit(corpus) ==
    LET read == corpus \cap CanRead
        content(k) == entries[filteredFiles[k]].content
        usage == argv.summary /\ (argv.countOnly \/ argv.baseline)
        throws == /\ ~AllCompile
                  /\ IF ListingRun THEN \E k \in read : SplitLines(content(k)) # <<>>
                     ELSE read # {}
        found == IF ListingRun
                 THEN \E k \in read : \E p \in 1..Len(patRegexes) :
                          \E n \in 1..Len(SplitLines(content(k))) :
                              ListingPrints(entries[filteredFiles[k]], n, p)
                 ELSE \E k \in read : \E p \in 1..Len(patRegexes) :
                          CountMatches(content(k), patRegexes[p].alts,
                                       allowlistRegexes) > 0
    IN  IF usage THEN 2
        ELSE IF corpus = {} THEN 0
        ELSE IF throws THEN 1
        ELSE IF ~argv.baseline THEN (IF found THEN 1 ELSE 0)
        ELSE IF baselineAtStart.kind = "garbage" THEN 2
        ELSE IF ~Truthy(baselineAtStart) THEN 0
        ELSE IF \E p \in 1..Len(patNames) :
                    CorpusTotal(p, Len(filteredFiles), corpus)
                        > BaseOf(baselineAtStart, patNames[p])
             THEN 1 ELSE 0

\* the exit status of a run is that of the run over its whole file list
RunExitIsExitStatus == Exited => exitStatus = RunExit(1..Len(filteredFiles))

\* C19: a file of the list that cannot be read does not end the scan: the
\* totals are those of the files that can be read, no line of the output
\* names the file, and the run ends with the status of the run over the
\* file list without it.
C19_UnreadableIsSkipped ==
    /\ CountDone =>
           \A p \in 1..Len(counts) :
               counts[p] = CorpusTotal(p, Len(filteredFiles), CanRead)
    /\ \A k \in 1..Len(out) :
           /\ out[k].kind = "match" => FilePos(out[k].file) \in CanRead
           /\ out[k].kind = "file" => FilePos(out[k].name) \in CanRead
    /\ Exited => exitStatus = RunExit(CanRead)

\* the options ask for two modes at once (lines 314-315)
TwoModes == argv.summary /\ (argv.countOnly \/ argv.baseline)

\* C20: the mode is fixed by the options when the first file is scanned and
\* stays so; a baseline means count mode; only one mode scans and prints in
\* a run; and options that ask for summary with count-only, or for a
\* baseline with summary, end the run with status 2, no file scanned and the
\* baseline not written.
C20_OneModeFixedUpFront ==
    /\ (pc # "args" /\ TwoModes) =>
           /\ Exited
           /\ exitStatus = 2
           /\ filteredFiles = <<>> /\ fileIdx = 0 /\ lineNo = 0
           /\ counts = <<>> /\ fileCounts = <<>> /\ matches = 0
           /\ writes = 0 /\ baseline = baselineAtStart
           /\ \A k \in 1..Len(out) : out[k].kind = "help"
    /\ fileIdx > 0 =>
           /\ countOnly = (argv.countOnly \/ argv.baseline)
           /\ summaryOnly = argv.summary
           /\ baselineGiven = argv.baseline
    /\ pc \in {"count", "baseline", "loaded"} => (argv.countOnly \/ argv.baseline)
    /\ pc = "summary" => SummaryRun
    /\ pc \in {"listing", "lines"} => ListingRun
    /\ counts # <<>> => (argv.countOnly \/ argv.baseline)
    /\ fileCounts # <<>> => SummaryRun
    /\ lineNo > 0 => ListingRun
    /\ writes > 0 => BaselineRun
    /\ \A k \in 1..Len(out) :
           /\ out[k].kind = "match" => ListingRun
           /\ out[k].kind = "count" => CountRun
           /\ out[k].kind = "delta" => BaselineRun
           /\ out[k].kind \in {"dirHeader", "dir", "fileHeader", "file"} => SummaryRun

\* C20 witness: a baseline is asked for together with summary, over a tree
\* with a file that holds an occurrence and with no baseline file yet; the
\* run has ended
C20_Witness ==
    /\ Exited
    /\ argv.baseline /\ argv.summary
    /\ baselineAtStart.kind = "absent"
    /\ AllCompile
    /\ \E i \in 1..Len(entries) :
           /\ entries[i].readable
           /\ Visited(entries[i].path, excludeDirs)
           /\ ~isIgnored(entries[i].path, ignorePatterns)
           /\ \E p \in 1..Len(patRegexes) :
                  CountMatches(entries[i].content, patRegexes[p].alts,
                               allowlistRegexes) > 0

\* C21: a run that loads the baseline file as a baseline leaves the file as
\* it was, whatever the deltas; a run writes the file at most once, and only
\* a seeding run, which is a baseline run that starts with no baseline file,
\* writes it.
C21_LoadedBaselineIsKept ==
    /\ (BaselineRun /\ Truthy(baselineAtStart)) =>
           baseline = baselineAtStart /\ writes = 0
    /\ writes <= 1
    /\ writes = 0 => baseline = baselineAtStart
    /\ writes > 0 => BaselineRun /\ baselineAtStart.kind = "absent"

\* the scan of the current file completes in this step: the line reader
\* closes after the last line, or the stream of a file that cannot be read
\* fails
FileCompletes ==
    \/ pc = "lines" /\ lineNo = Len(SplitLines(CurrentFile.content)) /\ pc' = "listing"
    \/ pc = "listing" /\ ~CurrentFile.readable /\ pc' = "listing"

\* a listing is under way
Listing == pc \in {"listing", "lines"}

\* C22: a listing over a finite file list ends; the scan goes from a file to
\* the next one only when the file's scan completes, on the close of the
\* line reader or on the error of the stream; and the process exits only
\* after the last file, with status 1 if the match counter is above 0 and
\* with status 0 otherwise.
C22_ListingTerminates ==
    /\ Listing ~> Exited
    /\ [][(Listing /\ fileIdx' # fileIdx) =>
              (fileIdx' = fileIdx + 1 /\ FileCompletes)]_vars
    /\ [][(Listing /\ Exited') =>
              /\ fileIdx > Len(filteredFiles)
              /\ matches' = matches
              /\ exitStatus' = IF matches > 0 THEN 1 ELSE 0]_vars

====
